---- MODULE Spec2Model ----
(***************************************************************************)
(* Model of quantumenvironment.py: target resolution (_define_target), the *)
(* constructor's set-up of estimator and backend, the Pauli sampling and   *)
(* reward weights of perform_action and the job it hands to the estimator, *)
(* the QuantumEnvironment history/step-counter state machine               *)
(* (perform_action, _store_benchmarks, clear_history, step_tracker) and    *)
(* the JSON snapshot (to_json / from_json).                                *)
(*                                                                         *)
(* Python objects are records [kind, n]: kind is the Python type that the  *)
(* isinstance checks of the source look at, n the object's qubit count     *)
(* (for a register, its length).  A key that is missing from a dictionary  *)
(* is the object Absent.                                                   *)
(***************************************************************************)
EXTENDS Integers, Sequences, FiniteSets, TLC

VARIABLES
    raw,    \* the target dictionary handed to _define_target / __init__
    res,    \* what _define_target returned or raised for raw
    env,    \* the QuantumEnvironment instance (its attributes)
    calls,  \* the calls made on the instance so far, each with its outcome
    init,   \* the constructor call: its arguments, its outcome, what it created
    job     \* the last job handed to estimator.run

vars == <<raw, res, env, calls, init, job>>

\* ---------------------------------------------------------------- bounds
MaxQubits == 2      \* qubit counts of gates, circuits, density matrices, registers
MaxInputs == 2      \* length of an explicitly supplied input_states list
MaxBatch == 2       \* batch size of an action batch / length of an estimator result
MaxCalls == 2       \* number of calls made on one instance
MaxBudget == 2      \* sampling_Pauli_space handed to the constructor

\* ------------------------------------------------------- program constants
NumPreps == 4       \* product(range(4), ...): Pauli preparation indices per qubit
PauliPerQubit == 4  \* d ** 2 with d = 2 ** n_qubits: Pauli basis elements per qubit
DefaultSamplingPauliSpace == 10     \* sampling_Pauli_space: int = 10
DefaultNShots == 1                  \* n_shots: int = 1
DefaultCFactor == 500000            \* c_factor: float = 0.5, in units of 10^-6
Decimals == 5                       \* np.round(..., 5)

RECURSIVE Pow(_, _)
Pow(b, e) == IF e = 0 THEN 1 ELSE b * Pow(b, e - 1)

\* ---------------------------------------------------------------- objects
Absent == [kind |-> "absent", n |-> 0]
Obj(k, n) == [kind |-> k, n |-> n]
Has(o) == o.kind # "absent"

NoChi == 0
NoTargetState == [dm |-> Absent, circuit |-> Absent, target_type |-> "", Chi |-> NoChi]
NoInputs == [present |-> FALSE, items |-> <<>>]

\* DensityMatrix(circuit): the state the circuit prepares, on the circuit's qubits
DensityMatrix(circuit) == Obj("DensityMatrix", circuit.n)

\* _calculate_chi_target_state: Chi is an array with d ** 2 = 4 ** n_qubits entries,
\* one per element of pauli_basis(n_qubits); the model keeps its length.
_calculate_chi_target_state(target_state, n_qubits) ==
    [target_state EXCEPT !.Chi = Pow(PauliPerQubit, n_qubits)]

\* ------------------------------------------------------- _define_target
Raised(e, target) ==
    [status |-> "error", error |-> e, target |-> target, target_type |-> "",
     q_register |-> Absent, n_qubits |-> 0, layout |-> "none"]

Returned(target, type, q_register, n_qubits, layout) ==
    [status |-> "ok", error |-> "", target |-> target, target_type |-> type,
     q_register |-> q_register, n_qubits |-> n_qubits, layout |-> layout]

\* lines 190-192: a register that is present must be a List or a QuantumRegister
RegisterTypeOk(target) ==
    Has(target.register) => target.register.kind \in {"List", "QuantumRegister"}

\* lines 193-199: q_register and layout before the target kind is looked at
RegisterOf(target) ==
    IF target.register.kind = "List"
    THEN Obj("QuantumRegister", target.register.n)
    ELSE target.register

LayoutOf(target) ==
    IF target.register.kind = "List" THEN "from_list" ELSE "none"

\* lines 218-222 and 231-234: defaults for a missing register / layout
DefaultRegister(q_register, n_qubits) ==
    IF Has(q_register) THEN q_register ELSE Obj("QuantumRegister", n_qubits)

DefaultLayout(layout) ==
    IF layout = "none" THEN "trivial" ELSE layout

\* TargetKeysError without the second disjunct of line 204 (gate with dm passes)
TargetKeysError_GateDmAllowed(target) ==
    IF ~Has(target.gate) /\ ~Has(target.circuit) /\ ~Has(target.dm) THEN "KeyError"
    ELSE IF Has(target.gate) /\ Has(target.circuit) THEN "KeyError"
    ELSE ""

\* lines 201-205: which target keys may appear together
TargetKeysError(target) ==
    IF ~Has(target.gate) /\ ~Has(target.circuit) /\ ~Has(target.dm) THEN "KeyError"
    ELSE IF (Has(target.gate) /\ Has(target.circuit)) \/ (Has(target.gate) /\ Has(target.dm))
         THEN "KeyError"
    ELSE ""

\* lines 206-224: state target
DefineStateTarget(target, q_register, layout) ==
    LET t1 == [target EXCEPT !.target_type = "state"]
    IN  IF Has(t1.circuit) /\ t1.circuit.kind # "QuantumCircuit"
        THEN Raised("AssertionError", t1)
        ELSE
        LET t2 == IF Has(t1.circuit)
                  THEN [t1 EXCEPT !.dm = DensityMatrix(t1.circuit)]
                  ELSE t1
        IN  IF t2.dm.kind # "DensityMatrix"
            THEN Raised("AssertionError", t2)
            ELSE
            LET n_qubits == t2.dm.n
            IN  Returned(_calculate_chi_target_state(t2, n_qubits), "state",
                         DefaultRegister(q_register, n_qubits), n_qubits,
                         DefaultLayout(layout))

\* lines 238-240: the default input states, one circuit per element of
\* product(range(4), repeat=len(tgt_register)); len(None) raises TypeError
DefaultInputCount(tgt_register) == Pow(NumPreps, tgt_register.n)

DefaultInputStates(tgt_register) ==
    [i \in 1..DefaultInputCount(tgt_register) |->
        [circuit |-> Obj("QuantumCircuit", tgt_register.n), dm |-> Absent,
         target_state |-> NoTargetState]]

\* lines 247-256: what the loop body raises for one input state, "" if nothing
InputStateError(input_state, q_register) ==
    IF ~Has(input_state.circuit) THEN "KeyError"
    ELSE IF input_state.circuit.kind # "QuantumCircuit" THEN "AssertionError"
    ELSE IF input_state.circuit.n # q_register.n THEN "CircuitError"
    ELSE ""

\* lines 252-262: one pass of the loop body on an input state that raises nothing
ResolveInputState(input_state, q_register, n_qubits) ==
    [input_state EXCEPT
        !.dm = DensityMatrix(input_state.circuit),
        !.target_state = _calculate_chi_target_state(
            [dm |-> Obj("DensityMatrix", q_register.n),
             circuit |-> Obj("QuantumCircuit", q_register.n),
             target_type |-> "state", Chi |-> NoChi], n_qubits)]

\* lines 246-262: the loop stops at the first input state that raises; the
\* dictionaries before it have already been updated in place
ResolveInputStates(items, q_register, n_qubits) ==
    LET bad == {i \in 1..Len(items) : InputStateError(items[i], q_register) # ""}
        stop == IF bad = {} THEN Len(items) + 1
                ELSE CHOOSE i \in bad : \A j \in bad : i <= j
    IN  [error |-> IF bad = {} THEN "" ELSE InputStateError(items[stop], q_register),
         items |-> [i \in 1..Len(items) |->
                      IF i < stop THEN ResolveInputState(items[i], q_register, n_qubits)
                      ELSE items[i]]]

\* lines 226-263: gate target
DefineGateTarget(target, q_register0, layout0) ==
    LET t1 == [target EXCEPT !.target_type = "gate"]
        tgt_register == target.register
    IN  IF t1.gate.kind # "Gate" THEN Raised("AssertionError", t1)
        ELSE
        LET n_qubits == t1.gate.n
            q_register == DefaultRegister(q_register0, n_qubits)
            layout == DefaultLayout(layout0)
        IN  IF n_qubits # q_register.n THEN Raised("AssertionError", t1)
            ELSE IF ~t1.input_states.present /\ ~Has(tgt_register)
            THEN Raised("TypeError", t1)
            ELSE
            LET t2 == IF t1.input_states.present THEN t1
                      ELSE [t1 EXCEPT !.input_states =
                               [present |-> TRUE, items |-> DefaultInputStates(tgt_register)]]
                loop == ResolveInputStates(t2.input_states.items, q_register, n_qubits)
                t3 == [t2 EXCEPT !.input_states.items = loop.items]
            IN  IF loop.error # "" THEN Raised(loop.error, t3)
                ELSE Returned(t3, "gate", q_register, n_qubits, layout)

\* lines 189-265
_define_target(target) ==
    IF ~RegisterTypeOk(target) THEN Raised("AssertionError", target)
    ELSE IF TargetKeysError(target) # "" THEN Raised(TargetKeysError(target), target)
    ELSE IF Has(target.circuit) \/ Has(target.dm)
         THEN DefineStateTarget(target, RegisterOf(target), LayoutOf(target))
         ELSE DefineGateTarget(target, RegisterOf(target), LayoutOf(target))

\* ------------------------------------------------------- raw targets
Qubits == 1..MaxQubits

Registers ==
    {Absent, Obj("other", 0)} \cup
    {Obj(k, n) : k \in {"List", "QuantumRegister"}, n \in Qubits}

ObjectsOf(k) == {Absent, Obj("other", 0)} \cup {Obj(k, n) : n \in Qubits}

InputItems ==
    {[circuit |-> c, dm |-> Absent, target_state |-> NoTargetState] :
        c \in ObjectsOf("QuantumCircuit")}

InputLists ==
    {NoInputs} \cup
    {[present |-> TRUE, items |-> s] :
        s \in UNION {[1..k -> InputItems] : k \in 0..MaxInputs}}

RawTargets ==
    [register : Registers, gate : ObjectsOf("Gate"), circuit : ObjectsOf("QuantumCircuit"),
     dm : ObjectsOf("DensityMatrix"), input_states : InputLists,
     target_type : {""}, Chi : {NoChi}]

NoRes == Raised("", [register |-> Absent, gate |-> Absent, circuit |-> Absent,
                     dm |-> Absent, input_states |-> NoInputs,
                     target_type |-> "", Chi |-> NoChi])
\* ------------------------------------------------- QuantumEnvironment
\* An attribute that __init__ does not create for the instance's target_type is
\* kept as <<>> and HasAttr says that it does not exist.
GateAttrs == {"process_fidelity_history", "avg_fidelity_history", "built_unitaries"}
StateAttrs == {"state_fidelity_history"}

HasAttr(self, name) ==
    /\ name \in GateAttrs => self.target_type = "gate"
    /\ name \in StateAttrs => self.target_type # "gate"

\* Qiskit_config: a QiskitConfig with its backend (None, an AerBackend, a
\* DynamicsBackend or a Runtime backend) and its do_calibrations flag, None, or
\* the mapping that json.loads returns.
Backends == {"None", "AerBackend", "DynamicsBackend", "Runtime_Backend"}
QiskitConfig(backend, do_calibrations) ==
    [kind |-> "QiskitConfig", backend |-> backend, do_calibrations |-> do_calibrations]
NoConfig == [kind |-> "None", backend |-> "None", do_calibrations |-> FALSE]
DictConfig == [kind |-> "dict", backend |-> "None", do_calibrations |-> FALSE]

NoEnv ==
    [constructed |-> FALSE, abstraction_level |-> "", config |-> NoConfig,
     target |-> NoRes.target, target_type |-> "", tgt_register |-> Absent,
     n_qubits |-> 0, layout |-> "none", step_tracker |-> 0,
     c_factor |-> 0, sampling_Pauli_space |-> 0, n_shots |-> 0, estimator |-> "",
     action_history |-> <<>>, density_matrix_history |-> <<>>,
     reward_history |-> <<>>, qc_history |-> <<>>,
     process_fidelity_history |-> <<>>, avg_fidelity_history |-> <<>>,
     built_unitaries |-> <<>>, state_fidelity_history |-> <<>>]

\* What a call returns: the instance after it, and the value or the exception.
Ok(self, ret) == [self |-> self, status |-> "ok", error |-> "", ret |-> ret]
Err(self, e) == [self |-> self, status |-> "error", error |-> e, ret |-> -1]

\* What the constructor creates or runs, in the order of lines 299-359.
Estimators == {"Estimator", "Aer_Estimator", "BackendEstimator", "Runtime_Estimator"}
BackendWork ==
    Estimators \cup {"Session", "DynamicsBackend.from_backend",
                     "perform_standard_calibrations"}

\* lines 355-357: a Runtime backend gets a Session and a Runtime_Estimator
RuntimeSetup(backend) ==
    IF backend = "Runtime_Backend" THEN <<"Session", "Runtime_Estimator">> ELSE <<>>

\* lines 311-359: estimator, benchmark backend, calibrations.  The solver set-up
\* of 342-353 creates none of them and is taken to succeed.  target is the
\* dictionary handed to the constructor (line 340 reads target["register"]).
BackendSetup(target, abstraction_level, Qiskit_config) ==
    LET backend == Qiskit_config.backend
    IN  IF abstraction_level = "circuit"
        THEN [error |-> "",
              events |-> <<IF backend = "AerBackend" THEN "Aer_Estimator" ELSE "Estimator">>
                         \o RuntimeSetup(backend)]
        ELSE IF backend \notin {"Runtime_Backend", "DynamicsBackend"}
        THEN [error |-> "TypeError", events |-> <<>>]
        ELSE IF backend = "DynamicsBackend"
        THEN [error |-> "",
              events |-> <<"BackendEstimator">> \o
                         (IF Qiskit_config.do_calibrations
                          THEN <<"perform_standard_calibrations">> ELSE <<>>)]
        ELSE IF ~Has(target.register)
        THEN [error |-> "KeyError", events |-> <<>>]
        ELSE [error |-> "",
              events |-> <<"DynamicsBackend.from_backend">> \o RuntimeSetup(backend)]

\* self._estimator: the estimator created last
EstimatorOf(events) ==
    LET made == {i \in 1..Len(events) : events[i] \in Estimators}
    IN  IF made = {} THEN ""
        ELSE events[CHOOSE i \in made : \A j \in made : j <= i]

\* what lines 296-359 did: the error raised if any, what was created on the way,
\* and what _define_target returned
SetUp(error, events, r) == [error |-> error, events |-> events, r |-> r]

\* lines 307-359 once the target is resolved to r: the backend is read from the
\* configuration (307; a mapping has no attribute backend) and set up (311-359)
AfterTarget(r, b, Qiskit_config) ==
    IF r.status = "error" THEN SetUp(r.error, <<"_define_target">>, r)
    ELSE IF Qiskit_config.kind # "QiskitConfig"
    THEN SetUp("AttributeError", <<"_define_target">>, r)
    ELSE SetUp(b.error, <<"_define_target">> \o b.events, r)

\* the same with the backend set up before the target is resolved
BeforeTarget(r, b, Qiskit_config) ==
    IF Qiskit_config.kind # "QiskitConfig" THEN SetUp("AttributeError", <<>>, r)
    ELSE IF b.error # "" THEN SetUp(b.error, b.events, r)
    ELSE SetUp(r.error, b.events \o <<"_define_target">>, r)

\* QiskitSetup with the backend set-up moved in front of _define_target
QiskitSetup_BackendFirst(target, abstraction_level, Qiskit_config) ==
    BeforeTarget(_define_target(target),
                 BackendSetup(target, abstraction_level, Qiskit_config), Qiskit_config)

\* lines 296-359: _define_target (299), then the backend
QiskitSetup(target, abstraction_level, Qiskit_config) ==
    AfterTarget(_define_target(target),
                BackendSetup(target, abstraction_level, Qiskit_config), Qiskit_config)

\* the constructor's outcome: the instance, and what was created on the way
Built(q, events) ==
    [self |-> q.self, status |-> q.status, error |-> q.error, ret |-> q.ret,
     events |-> events]

\* lines 291-379: the attributes of the instance once the set-up s is through
Attributes(s, abstraction_level, Qiskit_config, sampling_Pauli_space, n_shots, c_factor) ==
    IF s.error # "" THEN Built(Err(NoEnv, s.error), s.events)
    ELSE Built(Ok([NoEnv EXCEPT
                !.constructed = TRUE,
                !.abstraction_level = abstraction_level,
                !.config = Qiskit_config,
                !.target = s.r.target,
                !.target_type = s.r.target_type,
                !.tgt_register = s.r.q_register,
                !.n_qubits = s.r.n_qubits,
                !.layout = s.r.layout,
                !.c_factor = c_factor,
                !.sampling_Pauli_space = sampling_Pauli_space,
                !.n_shots = n_shots,
                !.estimator = EstimatorOf(s.events),
                !.step_tracker = 0], 0), s.events)

\* lines 270-379, QUA_config = None
__init__(target, abstraction_level, Qiskit_config, sampling_Pauli_space, n_shots, c_factor) ==
    IF abstraction_level \notin {"circuit", "pulse"}
    THEN Built(Err(NoEnv, "AssertionError"), <<>>)
    ELSE IF Qiskit_config.kind = "None" THEN Built(Err(NoEnv, "AttributeError"), <<>>)
    ELSE Attributes(QiskitSetup(target, abstraction_level, Qiskit_config),
                    abstraction_level, Qiskit_config, sampling_Pauli_space, n_shots, c_factor)

\* StoreCircuitBenchmarks without line 463 (no append to avg_fidelity_history)
StoreCircuitBenchmarks_NoAvgAppend(self, batch_size, fail) ==
    IF fail = "bench_pre" THEN Err(self, "QiskitError")
    ELSE
    LET s1 == [self EXCEPT !.density_matrix_history = Append(@, batch_size)]
    IN  IF fail = "bench_mid" THEN Err(s1, "QiskitError")
        ELSE IF self.target_type = "state"
        THEN Ok([s1 EXCEPT !.state_fidelity_history = Append(@, 1)], 0)
        ELSE Ok([s1 EXCEPT !.built_unitaries = Append(@, batch_size),
                           !.process_fidelity_history = Append(@, 1)], 0)

\* lines 445-469: _store_benchmarks at the circuit level.  fail names the place
\* where a collaborator raises: "bench_pre" in Statevector.from_instruction or the
\* mean (447-449), "bench_mid" in state_fidelity (453) or in Operator /
\* process_fidelity / average_gate_fidelity (455-460).
StoreCircuitBenchmarks(self, batch_size, fail) ==
    IF fail = "bench_pre" THEN Err(self, "QiskitError")
    ELSE
    LET s1 == [self EXCEPT !.density_matrix_history = Append(@, batch_size)]
    IN  IF fail = "bench_mid" THEN Err(s1, "QiskitError")
        ELSE IF self.target_type = "state"
        THEN Ok([s1 EXCEPT !.state_fidelity_history = Append(@, 1)], 0)
        ELSE Ok([s1 EXCEPT !.built_unitaries = Append(@, batch_size),
                           !.process_fidelity_history = Append(@, 1),
                           !.avg_fidelity_history = Append(@, 1)], 0)

\* lines 470-487: _store_benchmarks at the pulse level.  "bench_pre" raises in
\* schedule / _simulate_pulse_schedules (472-476); "bench_mid" raises in
\* state_fidelity (479-481) for a state target and in average_gate_fidelity
\* (485), after process_fidelity_history was appended, for a gate target.
\* Line 487 appends to built_unitaries, which a state-target instance lacks.
StorePulseBenchmarks(self, batch_size, fail) ==
    IF fail = "bench_pre" THEN Err(self, "QiskitError")
    ELSE IF self.target_type = "state"
    THEN IF fail = "bench_mid" THEN Err(self, "QiskitError")
         ELSE
         LET s1 == [self EXCEPT !.state_fidelity_history = Append(@, 1)]
         IN  IF ~HasAttr(s1, "built_unitaries") THEN Err(s1, "AttributeError")
             ELSE Ok([s1 EXCEPT !.built_unitaries = Append(@, batch_size)], 0)
    ELSE
    LET s1 == [self EXCEPT !.process_fidelity_history = Append(@, 1)]
    IN  IF fail = "bench_mid" THEN Err(s1, "QiskitError")
        ELSE
        LET s2 == [s1 EXCEPT !.avg_fidelity_history = Append(@, 1)]
        IN  IF ~HasAttr(s2, "built_unitaries") THEN Err(s2, "AttributeError")
            ELSE Ok([s2 EXCEPT !.built_unitaries = Append(@, batch_size)], 0)

\* lines 439-487
_store_benchmarks(self, batch_size, fail) ==
    IF self.abstraction_level = "circuit"
    THEN StoreCircuitBenchmarks(self, batch_size, fail)
    ELSE StorePulseBenchmarks(self, batch_size, fail)

\* ------------------------------------------- direct fidelity estimation
\* Every density matrix of the model is that of |0...0>: Tr(dm . P) is 1 for the
\* Pauli strings made of I and Z only and 0 for the others.  pauli_basis orders the
\* strings by index, one base-4 digit per qubit (0 = I, 1 = X, 2 = Y, 3 = Z), so
\* that Chi is [1, 0, 0, 1] on one qubit.
RECURSIVE ChiEntry(_, _)
ChiEntry(n_qubits, k) ==
    IF n_qubits = 0 THEN 1
    ELSE IF k % PauliPerQubit \in {0, PauliPerQubit - 1}
         THEN ChiEntry(n_qubits - 1, k \div PauliPerQubit)
         ELSE 0

\* target_state["Chi"][p], an entry of the array of lines 181-183
Chi(target_state, n_qubits, p) ==
    IF p \in 0..(target_state.Chi - 1) THEN ChiEntry(n_qubits, p) ELSE 0

RECURSIVE SumSquares(_, _, _)
SumSquares(target_state, n_qubits, k) ==
    IF k = 0 THEN 0
    ELSE Chi(target_state, n_qubits, k - 1) * Chi(target_state, n_qubits, k - 1)
         + SumSquares(target_state, n_qubits, k - 1)

\* line 405: Categorical(probs=Chi ** 2) works with the logarithms of probs and
\* normalises them, so prob(p) = Chi[p]^2 / sum(Chi^2); kept as a fraction
prob(target_state, n_qubits, p) ==
    [num |-> Chi(target_state, n_qubits, p) * Chi(target_state, n_qubits, p),
     den |-> SumSquares(target_state, n_qubits, target_state.Chi)]

\* the indices that distribution.sample can return
Drawable(target_state, n_qubits) ==
    {p \in 0..(target_state.Chi - 1) : prob(target_state, n_qubits, p).num > 0}

\* lines 406-407: the values np.unique can find in sampling_Pauli_space draws
UniqueSamples(target_state, n_qubits, sampling_Pauli_space) ==
    {S \in SUBSET Drawable(target_state, n_qubits) :
        /\ Cardinality(S) <= sampling_Pauli_space
        /\ sampling_Pauli_space >= 1 => S # {}}

\* np.round(num / den, 5) for num / den in units of 10^-6: the nearest multiple of
\* 10, a tie going to the even one
Round(num, den) ==
    LET step == Pow(10, 6 - Decimals) * den
        q == num \div step
        twice == 2 * (num - q * step)
    IN  Pow(10, 6 - Decimals) *
            (IF twice > step \/ (twice = step /\ q % 2 = 1) THEN q + 1 ELSE q)

\* reward_factor without the division by prob(p)
reward_factor_Unweighted(self, target_state, p) ==
    Round(self.c_factor * Chi(target_state, self.n_qubits, p), Pow(2, self.n_qubits))

\* lines 408-409, one entry: c_factor * Chi[p] / (d * prob(p)), rounded
reward_factor(self, target_state, p) ==
    LET P == prob(target_state, self.n_qubits, p)
    IN  Round(self.c_factor * Chi(target_state, self.n_qubits, p) * P.den,
              Pow(2, self.n_qubits) * P.num)

\* lines 394-403: the input state drawn (index) and the target state sampled from
InputIndices(self) ==
    IF self.target_type = "gate" THEN 1..Len(self.target.input_states.items) ELSE {0}

TargetStateOf(self, index) ==
    IF self.target_type = "gate"
    THEN self.target.input_states.items[index].target_state
    ELSE self.target

\* [x] * batch_size with a single element whatever the batch size
Batch_OneElement(x, batch_size) == <<x>>

\* [x] * batch_size (lines 426, 430)
Batch(x, batch_size) == [i \in 1..batch_size |-> x]

\* What estimator.run is called with.  A circuit is the input state's preparation
\* (prep, 0 if none) followed by the parametrized circuit; an observable maps each
\* Pauli index of the sum to its coefficient and names the input state (chi, 0 for
\* the target itself) whose Chi it was sampled from.
NoJob == [estimator |-> "", circuits |-> <<>>, observables |-> <<>>,
          shots |-> 0, job_tags |-> <<>>]

EstimatorRun(self, batch_size, index, pauli_index) ==
    LET target_state == TargetStateOf(self, index)
        observables == [chi |-> index,
                        coeffs |-> [p \in pauli_index |->
                                       reward_factor(self, target_state, p)]]
        qc == [prep |-> index, n |-> self.tgt_register.n]
    IN  [estimator |-> self.estimator,
         circuits |-> Batch(qc, batch_size),
         observables |-> Batch(observables, batch_size),
         shots |-> self.sampling_Pauli_space * self.n_shots,
         job_tags |-> IF self.estimator = "Runtime_Estimator"
                      THEN <<self.step_tracker>> ELSE <<>>]

\* the outcome of a step and the job it handed to the estimator (NoJob if none)
Step(r, j) ==
    [self |-> r.self, status |-> r.status, error |-> r.error, ret |-> r.ret, job |-> j]

\* lines 433-437: the counter, the result, its record and the length check
FinishStep(self, batch_size, fail, reward_len) ==
    LET s1 == [self EXCEPT !.step_tracker = @ + 1]
    IN  IF fail = "result" THEN Err(s1, "JobError")
        ELSE
        LET s2 == [s1 EXCEPT !.reward_history = Append(@, reward_len)]
        IN  IF reward_len # batch_size THEN Err(s2, "AssertionError")
            ELSE Ok(s2, reward_len)

\* Benchmark that ignores the flag
Benchmark_Always(self, batch_size, do_benchmark, fail) ==
    _store_benchmarks(self, batch_size, fail)

\* lines 420-421
Benchmark(self, batch_size, do_benchmark, fail) ==
    IF do_benchmark THEN _store_benchmarks(self, batch_size, fail) ELSE Ok(self, 0)

\* lines 381-437.  actions is a batch of batch_size parameter vectors; an entry of
\* a history is modelled by the number of elements it holds (a fidelity entry is
\* one scalar).  fail names the place where a collaborator raises: "sampling"
\* (394-418: sampling, observable, circuit binding), "bench_pre" / "bench_mid"
\* (421), "run" (424-431: circuit construction, estimator.run), "result" (434:
\* job.result()), "none"; reward_len is the length of the vector the job returns.
\* index is the value of np.random.randint (396) and pauli_index the array of
\* distinct Pauli indices of line 407; SparsePauliOp.from_list (412) raises
\* QiskitError for an empty list.
perform_action(self, batch_size, do_benchmark, fail, reward_len, index, pauli_index) ==
    LET s1 == [self EXCEPT !.action_history = Append(@, batch_size)]
    IN  IF fail = "sampling" THEN Step(Err(s1, "SamplingError"), NoJob)
        ELSE IF pauli_index = {} THEN Step(Err(s1, "QiskitError"), NoJob)
        ELSE
        LET s2 == [s1 EXCEPT !.qc_history = Append(@, batch_size)]
            b == Benchmark(s2, batch_size, do_benchmark, fail)
        IN  IF b.status = "error" THEN Step(b, NoJob)
            ELSE IF fail = "run" THEN Step(Err(b.self, "EstimatorError"), NoJob)
            ELSE Step(FinishStep(b.self, batch_size, fail, reward_len),
                      EstimatorRun(b.self, batch_size, index, pauli_index))

\* clear_history that also resets the step counter
clear_history_ResetsCounter(self) ==
    Ok([self EXCEPT !.qc_history = <<>>, !.action_history = <<>>,
                    !.reward_history = <<>>, !.avg_fidelity_history = <<>>,
                    !.process_fidelity_history = <<>>, !.built_unitaries = <<>>,
                    !.state_fidelity_history = <<>>, !.density_matrix_history = <<>>,
                    !.step_tracker = 0], 0)

\* lines 527-538
clear_history(self) ==
    LET s1 == [self EXCEPT !.qc_history = <<>>,
                           !.action_history = <<>>,
                           !.reward_history = <<>>]
    IN  IF self.target_type = "gate"
        THEN Ok([s1 EXCEPT !.avg_fidelity_history = <<>>,
                           !.process_fidelity_history = <<>>,
                           !.built_unitaries = <<>>], 0)
        ELSE Ok([s1 EXCEPT !.state_fidelity_history = <<>>,
                           !.density_matrix_history = <<>>], 0)

\* lines 590-593: the step_tracker setter
set_step_tracker(self, step) ==
    IF ~(step >= 0) THEN Err(self, "AssertionError")
    ELSE Ok([self EXCEPT !.step_tracker = step], 0)

\* ------------------------------------------------------- JSON snapshot
\* json.dumps (no default=) encodes dict, list, str, int, float, bool and None and
\* raises TypeError for every other object.  Entries of action_history and
\* reward_history are numpy arrays; fidelity entries are floats.
NativeObj(o) == o.kind \in {"absent", "List", "other"}

NativeTarget(target) ==
    /\ NativeObj(target.register) /\ NativeObj(target.gate)
    /\ NativeObj(target.circuit) /\ NativeObj(target.dm)
    /\ target.Chi = NoChi
    /\ \A i \in 1..Len(target.input_states.items) :
          LET s == target.input_states.items[i]
          IN  NativeObj(s.circuit) /\ NativeObj(s.dm) /\ NativeObj(s.target_state.dm)
              /\ NativeObj(s.target_state.circuit) /\ s.target_state.Chi = NoChi

NoJson ==
    [abstraction_level |-> "", config |-> NoConfig, target |-> NoRes.target,
     sampling_Pauli_space |-> 0, n_shots |-> 0, c_factor |-> 0,
     target_type |-> "", reward_history |-> <<>>, action_history |-> <<>>,
     fidelity_history |-> <<>>]

\* lines 595-608.  n_qubits, sampling_Pauli_space, n_shots and c_factor are numbers
\* and always encode.
to_json(self) ==
    LET class_info ==
            [abstraction_level |-> self.abstraction_level,
             config |-> self.config,
             target |-> self.target,
             sampling_Pauli_space |-> self.sampling_Pauli_space,
             n_shots |-> self.n_shots,
             c_factor |-> self.c_factor,
             target_type |-> self.target_type,
             reward_history |-> self.reward_history,
             action_history |-> self.action_history,
             fidelity_history |-> IF self.target_type = "gate"
                                  THEN self.avg_fidelity_history
                                  ELSE self.state_fidelity_history]
    IN  IF /\ self.config.kind # "QiskitConfig"
           /\ NativeTarget(self.target)
           /\ self.reward_history = <<>>
           /\ self.action_history = <<>>
        THEN [status |-> "ok", error |-> "", json |-> class_info]
        ELSE [status |-> "error", error |-> "TypeError", json |-> NoJson]

\* lines 610-629: json.loads yields dicts, lists, strings and numbers only
from_json(class_info) ==
    LET q == __init__(class_info.target, class_info.abstraction_level, class_info.config,
                      class_info.sampling_Pauli_space, class_info.n_shots,
                      class_info.c_factor)
    IN  IF q.status = "error" THEN Err(q.self, q.error)
        ELSE
        LET q1 == [q.self EXCEPT !.reward_history = class_info.reward_history,
                                 !.action_history = class_info.action_history]
        IN  IF class_info.target_type = "gate"
            THEN Ok([q1 EXCEPT !.avg_fidelity_history = class_info.fidelity_history], 0)
            ELSE Ok([q1 EXCEPT !.state_fidelity_history = class_info.fidelity_history], 0)

\* QuantumEnvironment.from_json(env.to_json())
RoundTrip(self) ==
    LET j == to_json(self)
    IN  IF j.status = "error" THEN Err(self, j.error) ELSE from_json(j.json)

\* JSON texts handed to from_json: what json.loads makes of a target dictionary
JsonTargets ==
    {t \in [register : {Absent, Obj("List", 1)}, gate : {Absent, Obj("other", 0)},
            circuit : {Absent}, dm : {Absent, Obj("other", 0)},
            input_states : {NoInputs}, target_type : {""}, Chi : {NoChi}] :
        Has(t.gate) # Has(t.dm)}

JsonInputs ==
    {[NoJson EXCEPT !.abstraction_level = "circuit", !.config = DictConfig,
                    !.target = t,
                    !.sampling_Pauli_space = DefaultSamplingPauliSpace,
                    !.n_shots = DefaultNShots,
                    !.c_factor = DefaultCFactor,
                    !.target_type = IF Has(t.gate) THEN "gate" ELSE "state"] :
        t \in JsonTargets}

\* ----------------------------------------------- the instance's life cycle
FailPoints == {"none", "sampling", "bench_pre", "bench_mid", "run", "result"}

Call(op, r, batch_size, do_benchmark, fail) ==
    [op |-> op, status |-> r.status, error |-> r.error, ret |-> r.ret,
     batch_size |-> batch_size, do_benchmark |-> do_benchmark, fail |-> fail]

\* Targets the instance is constructed with: one qubit, register [0]
EnvTargets ==
    [register : {Obj("List", 1)}, gate : {Absent, Obj("Gate", 1)},
     circuit : {Absent, Obj("QuantumCircuit", 1)}, dm : {Absent, Obj("DensityMatrix", 1)},
     input_states : {NoInputs}, target_type : {""}, Chi : {NoChi}]

\* The constructor call: its arguments and, once it has run, its outcome.
Constructor(target, abstraction_level, Qiskit_config, sampling_Pauli_space, n_shots, c_factor) ==
    [done |-> FALSE, target |-> target, abstraction_level |-> abstraction_level,
     config |-> Qiskit_config, sampling_Pauli_space |-> sampling_Pauli_space,
     n_shots |-> n_shots, c_factor |-> c_factor,
     status |-> "", error |-> "", events |-> <<>>]

Construction(c) ==
    __init__(c.target, c.abstraction_level, c.config, c.sampling_Pauli_space,
             c.n_shots, c.c_factor)

Constructed(c) ==
    LET q == Construction(c)
    IN  [c EXCEPT !.done = TRUE, !.status = q.status, !.error = q.error,
                  !.events = q.events]

NoInit == Constructor(NoRes.target, "", NoConfig, 0, 0, 0)

\* The life cycle starts from an instance built with the constructor's defaults,
\* on the ideal simulator (circuit level) or a DynamicsBackend (pulse level).
Init ==
    \E t \in EnvTargets, level \in {"circuit", "pulse"} :
        LET c == Constructor(t, level,
                             QiskitConfig(IF level = "circuit" THEN "None"
                                          ELSE "DynamicsBackend", FALSE),
                             DefaultSamplingPauliSpace, DefaultNShots, DefaultCFactor)
            q == Construction(c)
        IN  /\ q.status = "ok"
            /\ env = q.self
            /\ raw = q.self.target
            /\ res = _define_target(t)
            /\ calls = <<>>
            /\ init = Constructed(c)
            /\ job = NoJob

\* The life cycle is explored with one sampling outcome per step: the first input
\* state is drawn, and the identity is the only Pauli index drawn.
FirstIndex(self) == CHOOSE i \in InputIndices(self) : \A j \in InputIndices(self) : i <= j

PerformAction ==
    \E batch_size \in 1..MaxBatch, do_benchmark \in BOOLEAN,
       fail \in FailPoints, reward_len \in 1..MaxBatch :
        /\ Len(calls) < MaxCalls
        /\ fail \in {"bench_pre", "bench_mid"} => do_benchmark
        /\ fail # "none" => reward_len = batch_size
        /\ LET r == perform_action(env, batch_size, do_benchmark, fail, reward_len,
                                   FirstIndex(env), {0})
           IN  /\ env' = r.self
               /\ job' = IF r.job = NoJob THEN job ELSE r.job
               /\ calls' = Append(calls, Call("perform_action", r, batch_size, do_benchmark, fail))
        /\ UNCHANGED <<raw, res, init>>

ClearHistory ==
    /\ Len(calls) < MaxCalls
    /\ LET r == clear_history(env)
       IN  /\ env' = r.self
           /\ calls' = Append(calls, Call("clear_history", r, 0, FALSE, "none"))
    /\ UNCHANGED <<raw, res, init, job>>

SetStepTracker ==
    \E step \in {-1, 0} :
        /\ Len(calls) < MaxCalls
        /\ LET r == set_step_tracker(env, step)
           IN  /\ env' = r.self
               /\ calls' = Append(calls, Call("step_tracker", r, 0, FALSE, "none"))
        /\ UNCHANGED <<raw, res, init, job>>

ToJson ==
    /\ Len(calls) < MaxCalls
    /\ LET j == to_json(env)
       IN  calls' = Append(calls, Call("to_json", [j EXCEPT !.json = 0] @@ [ret |-> 0],
                                       0, FALSE, "none"))
    /\ UNCHANGED <<raw, res, env, init, job>>

\* from_json is a class method: the caller goes on with the instance it returns
FromJson ==
    \E class_info \in JsonInputs :
        /\ Len(calls) < MaxCalls
        /\ LET r == from_json(class_info)
           IN  /\ env' = IF r.status = "ok" THEN r.self ELSE env
               /\ calls' = Append(calls, Call("from_json", r, 0, FALSE, "none"))
        /\ UNCHANGED <<raw, res, init, job>>

Next ==
    \/ PerformAction
    \/ ClearHistory
    \/ SetStepTracker
    \/ ToJson
    \/ FromJson

Spec == Init /\ [][Next]_vars

\* ------------------------------------------ specification of _define_target
InitTarget ==
    /\ raw \in RawTargets
    /\ res = NoRes
    /\ env = NoEnv
    /\ calls = <<>>
    /\ init = NoInit
    /\ job = NoJob

Resolve ==
    /\ calls = <<>>
    /\ res' = _define_target(raw)
    /\ calls' = <<[op |-> "_define_target"]>>
    /\ UNCHANGED <<raw, env, init, job>>

NextTarget == Resolve

SpecTarget == InitTarget /\ [][NextTarget]_vars

\* ------------------------------ specification of construction and first step
\* Constructor arguments: one-qubit targets with and without register, a level
\* that is not one, every configuration, budgets from 0, and a c_factor with more
\* than five decimals.
StepTargets ==
    [register : {Absent, Obj("List", 1)}, gate : {Absent, Obj("Gate", 1)},
     circuit : {Absent}, dm : {Absent, Obj("DensityMatrix", 1)},
     input_states : {NoInputs}, target_type : {""}, Chi : {NoChi}]

StepConfigs ==
    {NoConfig, DictConfig} \cup
    {QiskitConfig(b, cal) : b \in Backends, cal \in BOOLEAN}

CFactors == {DefaultCFactor, 123456}

InitStep ==
    \E t \in StepTargets, level \in {"circuit", "pulse", "gate"},
       cfg \in StepConfigs, budget \in 0..MaxBudget, c \in CFactors :
        /\ init = Constructor(t, level, cfg, budget, DefaultNShots, c)
        /\ raw = t
        /\ res = NoRes
        /\ env = NoEnv
        /\ calls = <<>>
        /\ job = NoJob

Construct ==
    /\ ~init.done
    /\ init' = Constructed(init)
    /\ env' = Construction(init).self
    /\ res' = _define_target(raw)
    /\ UNCHANGED <<raw, calls, job>>

\* the first perform_action call on the instance, with every sampling outcome
FirstStep ==
    /\ init.done /\ init.status = "ok" /\ calls = <<>>
    /\ \E batch_size \in 1..MaxBatch, do_benchmark \in BOOLEAN,
          fail \in FailPoints, reward_len \in 1..MaxBatch, index \in InputIndices(env) :
        \E pauli_index \in UniqueSamples(TargetStateOf(env, index), env.n_qubits,
                                          env.sampling_Pauli_space) :
        /\ fail \in {"bench_pre", "bench_mid"} => do_benchmark
        /\ fail # "none" => reward_len = batch_size
        /\ LET r == perform_action(env, batch_size, do_benchmark, fail, reward_len,
                                   index, pauli_index)
           IN  /\ env' = r.self
               /\ job' = IF r.job = NoJob THEN job ELSE r.job
               /\ calls' = <<Call("perform_action", r, batch_size, do_benchmark, fail)
                             @@ [index |-> index, pauli_index |-> pauli_index]>>
        /\ UNCHANGED <<raw, res, init>>

NextStep == Construct \/ FirstStep

SpecStep == InitStep /\ [][NextStep]_vars

\* --------------------------------- specification of steps on a Runtime backend
InitTag ==
    \E t \in EnvTargets, level \in {"circuit", "pulse"} :
        LET c == Constructor(t, level, QiskitConfig("Runtime_Backend", FALSE),
                             DefaultSamplingPauliSpace, DefaultNShots, DefaultCFactor)
            q == Construction(c)
        IN  /\ q.status = "ok"
            /\ env = q.self
            /\ raw = q.self.target
            /\ res = _define_target(t)
            /\ calls = <<>>
            /\ init = Constructed(c)
            /\ job = NoJob

\* a perform_action call in which no collaborator raises
TaggedStep ==
    \E batch_size \in 1..MaxBatch, do_benchmark \in BOOLEAN :
        /\ Len(calls) < MaxCalls + 1
        /\ LET r == perform_action(env, batch_size, do_benchmark, "none", batch_size,
                                   FirstIndex(env), {0})
           IN  /\ env' = r.self
               /\ job' = IF r.job = NoJob THEN job ELSE r.job
               /\ calls' = Append(calls, Call("perform_action", r, batch_size,
                                               do_benchmark, "none"))
        /\ UNCHANGED <<raw, res, init>>

ClearBetweenSteps ==
    /\ Len(calls) < MaxCalls + 1
    /\ LET r == clear_history(env)
       IN  /\ env' = r.self
           /\ calls' = Append(calls, Call("clear_history", r, 0, FALSE, "none"))
    /\ UNCHANGED <<raw, res, init, job>>

NextTag == TaggedStep \/ ClearBetweenSteps

SpecTag == InitTag /\ [][NextTag]_vars

\* ------------------------------------------------------------- properties
Histories(self) ==
    <<self.action_history, self.reward_history, self.qc_history,
      self.density_matrix_history, self.state_fidelity_history,
      self.avg_fidelity_history, self.process_fidelity_history, self.built_unitaries>>

AllEmpty(self) == \A i \in 1..Len(Histories(self)) : Histories(self)[i] = <<>>

LastCall == calls[Len(calls)]
After(op) == calls # <<>> /\ LastCall.op = op

\* the step just taken is a call of op; its record is the last of calls'
Called(op) == Len(calls') = Len(calls) + 1 /\ calls'[Len(calls')].op = op
Outcome == calls'[Len(calls')]

OnlySuccessfulSteps ==
    \A i \in 1..Len(calls) : calls[i].op = "perform_action" /\ calls[i].status = "ok"

Benchmarked == Cardinality({i \in 1..Len(calls) : calls[i].do_benchmark})

\* C1: a perform_action call that fails leaves every history buffer exactly as it
\* was before the call.
C1_FailedStepAppendsNothing ==
    [][Called("perform_action") /\ Outcome.status = "error"
        => Histories(env') = Histories(env)]_vars

\* C2: a perform_action call on a batch of size B either returns a reward table of
\* length B or, when the estimator's vector has another length, fails the length
\* check without having recorded that vector in reward_history.
C2_RewardLengthContract ==
    [][Called("perform_action")
        => /\ Outcome.status = "ok" => Outcome.ret = Outcome.batch_size
           /\ Outcome.error = "AssertionError"
                => env'.reward_history = env.reward_history]_vars

\* C3 as stated: after N successful perform_action calls and nothing else, every
\* history buffer of the active target_type has length N.
C3_AllHistoriesLengthN ==
    OnlySuccessfulSteps =>
        /\ Len(env.action_history) = Len(calls)
        /\ Len(env.reward_history) = Len(calls)
        /\ Len(env.qc_history) = Len(calls)
        /\ env.target_type = "gate" =>
              /\ Len(env.avg_fidelity_history) = Len(calls)
              /\ Len(env.process_fidelity_history) = Len(calls)
              /\ Len(env.built_unitaries) = Len(calls)
        /\ env.target_type = "state" =>
              /\ Len(env.state_fidelity_history) = Len(calls)
              /\ Len(env.density_matrix_history) = Len(calls)

\* C3 as amended: after N successful perform_action calls and nothing else,
\* action_history, reward_history and qc_history have length N, and every fidelity,
\* unitary and density-matrix buffer of the active target_type has as many entries
\* as there were calls with do_benchmark true.
C3_HistoriesLengthN ==
    OnlySuccessfulSteps =>
        /\ Len(env.action_history) = Len(calls)
        /\ Len(env.reward_history) = Len(calls)
        /\ Len(env.qc_history) = Len(calls)
        /\ env.target_type = "gate" =>
              /\ Len(env.avg_fidelity_history) = Benchmarked
              /\ Len(env.process_fidelity_history) = Benchmarked
              /\ Len(env.built_unitaries) = Benchmarked
        /\ env.target_type = "state" =>
              /\ Len(env.state_fidelity_history) = Benchmarked
              /\ Len(env.density_matrix_history) = Benchmarked

C3_Witness ==
    /\ OnlySuccessfulSteps /\ Len(calls) = 2 /\ Benchmarked = 1
    /\ env.target_type = "gate" /\ Len(env.avg_fidelity_history) = 1

\* C4: right after clear_history no history buffer of the instance holds an entry,
\* and a second clear_history leaves them all empty.
C4_ClearEmptiesAll ==
    After("clear_history") => AllEmpty(env) /\ AllEmpty(clear_history(env).self)

\* C5: the step counter goes up by one in a perform_action call that succeeds, is
\* unchanged by one that fails, and no call but the step_tracker setter lowers it.
C5_StepCounter ==
    [][/\ Called("perform_action") /\ Outcome.status = "ok"
            => env'.step_tracker = env.step_tracker + 1
       /\ Called("perform_action") /\ Outcome.status = "error"
            => env'.step_tracker = env.step_tracker
       /\ ~Called("step_tracker") => env'.step_tracker >= env.step_tracker]_vars

\* ----------------------------------------- properties of _define_target
Resolved == calls # <<>>
NoTargetKey == ~Has(raw.gate) /\ ~Has(raw.circuit) /\ ~Has(raw.dm)
GateWithState == Has(raw.gate) /\ (Has(raw.circuit) \/ Has(raw.dm))
KeysSet == Cardinality({k \in {"gate", "circuit", "dm"} : Has(raw[k])})

\* C6: a target with none of gate, circuit, dm, or with gate together with circuit
\* or dm, is rejected: nothing is returned, and the error is the KeyError of lines
\* 201-205 (unless the register's own type check, which comes first, has failed).
C6_TargetKeysRejected ==
    Resolved /\ (NoTargetKey \/ GateWithState) =>
        /\ res.status = "error"
        /\ res.q_register = Absent /\ res.n_qubits = 0 /\ res.target_type = ""
        /\ RegisterTypeOk(raw) => res.error = "KeyError"

C6_Witness ==
    /\ Resolved /\ raw.gate.kind = "Gate" /\ raw.dm.kind = "DensityMatrix"
    /\ ~Has(raw.circuit) /\ res.error = "KeyError"

\* C7: a target is resolved only if exactly one of gate, circuit, dm is set.
C7_ExactlyOneTargetKey ==
    Resolved /\ res.status = "ok" => KeysSet = 1

\* an otherwise valid target: one key of the right type and, for a gate, input
\* states (if given) that are circuits on the gate's qubits
ValidInputs(t) ==
    \A i \in 1..Len(t.input_states.items) :
        t.input_states.items[i].circuit = Obj("QuantumCircuit", t.gate.n)

OtherwiseValid(t) ==
    \/ t.circuit.kind = "QuantumCircuit" /\ ~Has(t.dm) /\ ~Has(t.gate)
    \/ t.dm.kind = "DensityMatrix" /\ ~Has(t.circuit) /\ ~Has(t.gate)
    \/ t.gate.kind = "Gate" /\ ~Has(t.circuit) /\ ~Has(t.dm) /\ ValidInputs(t)

\* C8: an otherwise valid target without a register resolves, to the register
\* QuantumRegister(n_qubits) with the trivial layout.
C8_DefaultRegister ==
    Resolved /\ ~Has(raw.register) /\ OtherwiseValid(raw) =>
        /\ res.status = "ok"
        /\ res.q_register = Obj("QuantumRegister", res.n_qubits)
        /\ res.layout = "trivial"

\* C9: a gate target on n qubits without input_states resolves to 4^n input states,
\* each with a target_state whose Chi is populated.
C9_DefaultInputStates ==
    /\ Resolved /\ raw.gate.kind = "Gate" /\ ~Has(raw.circuit) /\ ~Has(raw.dm)
    /\ ~raw.input_states.present
    /\ ~Has(raw.register) \/ (RegisterTypeOk(raw) /\ raw.register.n = raw.gate.n)
    =>  /\ res.status = "ok"
        /\ Len(res.target.input_states.items) = Pow(NumPreps, raw.gate.n)
        /\ \A i \in 1..Len(res.target.input_states.items) :
              res.target.input_states.items[i].target_state.Chi # NoChi

\* C10: serializing the instance and restoring it gives an instance equal to it:
\* same target, same history buffers, same step counter.
C10_RoundTrip ==
    After("perform_action") /\ LastCall.status = "ok" =>
        RoundTrip(env).status = "ok" /\ RoundTrip(env).self = env

\* ------------------------------------------ properties of the benchmark path
BenchmarkHistories(self) ==
    <<self.density_matrix_history, self.state_fidelity_history,
      self.avg_fidelity_history, self.process_fidelity_history, self.built_unitaries>>

\* the fidelity buffer of the instance's target_type
FidelityHistory(self) ==
    IF self.target_type = "gate" THEN self.avg_fidelity_history
    ELSE self.state_fidelity_history

\* C11: a perform_action call that succeeds with do_benchmark false appends the
\* action batch and the reward vector, advances the step counter by one and
\* leaves every fidelity, unitary and density-matrix history as it was; the same
\* call with do_benchmark true, where it succeeds, submits the same job, returns
\* the same reward and leaves the same action_history, reward_history and counter.
C11_UnbenchmarkedStep ==
    [][Called("perform_action") /\ Outcome.status = "ok" /\ ~Outcome.do_benchmark
        => /\ env'.action_history = Append(env.action_history, Outcome.batch_size)
           /\ env'.reward_history = Append(env.reward_history, Outcome.ret)
           /\ env'.step_tracker = env.step_tracker + 1
           /\ BenchmarkHistories(env') = BenchmarkHistories(env)
           /\ LET r == perform_action(env, Outcome.batch_size, TRUE, "none",
                                      Outcome.ret, FirstIndex(env), {0})
              IN  r.status = "ok" =>
                    /\ r.ret = Outcome.ret /\ r.job = job'
                    /\ r.self.action_history = env'.action_history
                    /\ r.self.reward_history = env'.reward_history
                    /\ r.self.step_tracker = env'.step_tracker]_vars

C11_Witness ==
    /\ Len(calls) = 2 /\ OnlySuccessfulSteps
    /\ calls[1].do_benchmark /\ ~calls[2].do_benchmark
    /\ env.target_type = "gate" /\ env.abstraction_level = "circuit"
    /\ Len(env.reward_history) = 2 /\ Len(env.avg_fidelity_history) = 1
    /\ env.step_tracker = 2

\* C12: when the extraction of a unitary or state from a batch element fails while
\* benchmarking, the step still succeeds, returns its reward table and appends one
\* fidelity entry.
C12_ElementFailureNotFatal ==
    [][Called("perform_action") /\ Outcome.fail \in {"bench_pre", "bench_mid"}
        => /\ Outcome.status = "ok"
           /\ Outcome.ret = Outcome.batch_size
           /\ Len(FidelityHistory(env')) = Len(FidelityHistory(env)) + 1]_vars

\* C13: a gate-target instance never holds entries in state_fidelity_history or
\* density_matrix_history; a state-target instance never holds entries in
\* avg_fidelity_history, process_fidelity_history or built_unitaries and no call
\* on it fails for trying to append to one of them.
C13_OnlyOwnBranchPopulated ==
    /\ env.target_type = "gate" =>
          env.state_fidelity_history = <<>> /\ env.density_matrix_history = <<>>
    /\ env.target_type = "state" =>
          /\ env.avg_fidelity_history = <<>> /\ env.process_fidelity_history = <<>>
          /\ env.built_unitaries = <<>>
          /\ \A i \in 1..Len(calls) :
                calls[i].op = "perform_action" => calls[i].error # "AttributeError"

\* the two ways C13 fails
C13_GateHoldsDensityMatrix ==
    env.target_type = "gate" => env.density_matrix_history = <<>>

C13_StateAppendsUnitaries ==
    env.target_type = "state" =>
        \A i \in 1..Len(calls) :
            calls[i].op = "perform_action" => calls[i].error # "AttributeError"

\* --------------------------------- properties of construction and first step
Stepped == calls # <<>> /\ LastCall.op = "perform_action"
Submitted == job # NoJob
BackendWorkDone == {i \in 1..Len(init.events) : init.events[i] \in BackendWork}

\* C14: a constructor call with a sampling budget below 1 fails, and a step whose
\* sampling yields no Pauli index fails without handing a job to the estimator.
C14_EmptySamplingRejected ==
    /\ init.done /\ init.sampling_Pauli_space < 1 => init.status = "error"
    /\ Stepped /\ LastCall.pauli_index = {} => LastCall.status = "error" /\ ~Submitted

\* the part of C14 that the code keeps: no job without a sampled Pauli index
C14_NoEmptyObservable ==
    Stepped /\ LastCall.pauli_index = {} => LastCall.status = "error" /\ ~Submitted

\* C15: a job holds one circuit and one observable per batch element, the
\* circuits all equal and the observables all equal, every observable built from
\* the one set of Pauli indices sampled in the call; for a gate target the circuit
\* starts with the preparation of the input state whose Chi was sampled, for a
\* state target with no preparation.
C15_OneSamplingPerBatch ==
    Stepped /\ Submitted =>
        /\ Len(job.circuits) = LastCall.batch_size
        /\ Len(job.observables) = LastCall.batch_size
        /\ \A i \in 1..Len(job.circuits) : job.circuits[i] = job.circuits[1]
        /\ \A i \in 1..Len(job.observables) :
              /\ job.observables[i] = job.observables[1]
              /\ DOMAIN job.observables[i].coeffs = LastCall.pauli_index
              /\ job.observables[i].chi = job.circuits[i].prep
        /\ env.target_type = "gate" => job.circuits[1].prep = LastCall.index
        /\ env.target_type = "state" => job.circuits[1].prep = 0

C15_Witness ==
    /\ Stepped /\ Submitted /\ LastCall.status = "ok" /\ LastCall.batch_size = 2
    /\ env.target_type = "gate" /\ LastCall.index = 3
    /\ LastCall.pauli_index = {0, 3}
    /\ job.circuits = <<[prep |-> 3, n |-> 1], [prep |-> 3, n |-> 1]>>

\* C16: in a constructor call _define_target comes before every estimator, session,
\* benchmark backend and calibration; when the target does not resolve, or has no
\* register for the benchmark backend, the call fails with none of them created.
C16_TargetResolvedFirst ==
    init.done =>
        /\ \A i \in BackendWorkDone :
              \E j \in 1..(i - 1) : init.events[j] = "_define_target"
        /\ res.status = "error" => init.status = "error" /\ BackendWorkDone = {}
        /\ init.status = "error" /\ init.error = "KeyError" => BackendWorkDone = {}

C16_Witness ==
    /\ init.done /\ init.abstraction_level = "circuit"
    /\ init.config = QiskitConfig("Runtime_Backend", FALSE)
    /\ Has(raw.gate) /\ Has(raw.dm) /\ Has(raw.register)
    /\ init.error = "KeyError" /\ init.events = <<"_define_target">>

\* the sampled target state is the one-qubit example: Chi = [1, 0, 0, 1], d = 2
OneQubitExample ==
    /\ Stepped /\ env.n_qubits = 1
    /\ [p \in 0..3 |-> Chi(TargetStateOf(env, LastCall.index), 1, p)]
          = [p \in 0..3 |-> IF p \in {0, 3} THEN 1 ELSE 0]

ExampleProb(p) == prob(TargetStateOf(env, LastCall.index), 1, p)

\* C17 as stated: in the example every drawn index has Chi[p] # 0 and probability
\* 1/2, and its reward weight is c.
C17_WeightIsC ==
    OneQubitExample =>
        /\ \A p \in LastCall.pauli_index :
              /\ Chi(TargetStateOf(env, LastCall.index), 1, p) # 0
              /\ 2 * ExampleProb(p).num = ExampleProb(p).den
        /\ Submitted =>
              \A p \in LastCall.pauli_index :
                  job.observables[1].coeffs[p] = env.c_factor

\* C17 as amended: in the example every drawn index has Chi[p] # 0 and probability
\* Chi[p]^2 / d = 1/2, and its reward weight is c rounded to five decimals (a
\* multiple of 10^-5 at most half of 10^-5 away from c), which is c when c has no
\* more than five decimals.
C17_WeightIsRoundedC ==
    OneQubitExample =>
        /\ \A p \in LastCall.pauli_index :
              /\ Chi(TargetStateOf(env, LastCall.index), 1, p) # 0
              /\ 2 * ExampleProb(p).num = ExampleProb(p).den
              /\ ExampleProb(p).den = Pow(2, env.n_qubits)
        /\ Submitted =>
              \A p \in LastCall.pauli_index :
                  LET w == job.observables[1].coeffs[p]
                  IN  /\ w % 10 = 0
                      /\ 2 * (w - env.c_factor) <= 10 /\ 2 * (env.c_factor - w) <= 10
                      /\ env.c_factor % 10 = 0 => w = env.c_factor

C17_Witness ==
    /\ OneQubitExample /\ Submitted /\ env.target_type = "state"
    /\ env.sampling_Pauli_space = 2 /\ LastCall.pauli_index = {0, 3}
    /\ env.c_factor = 123456
    /\ job.observables[1].coeffs = [p \in {0, 3} |-> 123460]

\* ------------------------------------ properties of steps on a Runtime backend
StepsDone == Cardinality({i \in 1..Len(calls) :
                 calls[i].op = "perform_action" /\ calls[i].status = "ok"})

\* C18: clear_history leaves the step counter, the target, target_type and the
\* sampling configuration as they were, and a job sent to the Runtime estimator is
\* tagged with the number of perform_action calls completed before it, whether or
\* not clear_history was called in between.
C18_ClearKeepsCounter ==
    [][/\ Called("clear_history") =>
            /\ env'.step_tracker = env.step_tracker
            /\ env'.target = env.target /\ env'.target_type = env.target_type
            /\ env'.sampling_Pauli_space = env.sampling_Pauli_space
            /\ env'.n_shots = env.n_shots /\ env'.c_factor = env.c_factor
       /\ Called("perform_action") /\ Outcome.status = "ok" =>
            job'.job_tags = <<StepsDone>>]_vars

C18_Witness ==
    /\ Len(calls) = 3 /\ calls[2].op = "clear_history" /\ StepsDone = 2
    /\ env.step_tracker = 2 /\ Len(env.reward_history) = 1
    /\ job.job_tags = <<1>>

====
